---- MODULE Spec2Model ----
(***************************************************************************)
(* A model of the camera sessions of SimpleBooth (camera_utils.py):        *)
(*   UsbCamera  backend fallback, resolution negotiation, capture thread,  *)
(*              reconnect,                                                 *)
(*   PiCamera   three libraries, one capture loop each, capture_photo,     *)
(*   detect_cameras  the scan of the camera ids.                           *)
(* Every thread of the program is a process with a program counter; one    *)
(* action is one statement or one group of statements of the source,       *)
(* named in the comment above it.  The camera driver is the environment:   *)
(* whether a device opens, what it reads back and whether a read returns a *)
(* frame is chosen nondeterministically at the call.  A test of an         *)
(* attribute and the call it guards in the same statement                  *)
(* (`if self.camera: self.camera.release()`) are one step; a test and a    *)
(* call in different statements (lines 167 and 172) are different steps.   *)
(***************************************************************************)
EXTENDS Integers, Sequences, FiniteSets, TLC

\* Bound: capture threads alive at the same time.  The driver lets a device
\* be taken into use only while a thread slot is left, so the bound restricts
\* the environment and never blocks a statement of the program.
MaxThreads == 2

\* Bound: capture threads that are in a run of read failures the driver chose
\* at the same time (a read on a handle that is not open always fails).
MaxFailing == 1

\* Bound: times the device lets itself be opened; afterwards every
\* cv2.VideoCapture(...) comes back not opened.
MaxOpens == 3

\* Bound: calls of start() and stop() the calling thread makes.
MaxCalls == 3

\* camera_utils.py:164
max_errors == 10

\* camera_utils.py:90, the order in which UsbCamera tries the backends
backends == <<"DSHOW", "ANY", "V4L2", "GSTREAMER">>

\* camera_utils.py:106-110
resolutions_to_test == << <<1920, 1080>>, <<1280, 720>>, <<640, 480>> >>

\* Sizes of the frames a driver may deliver, and the sizes it may report
\* through get(CAP_PROP_FRAME_WIDTH/HEIGHT).
FrameShapes == { <<1920, 1080>>, <<1728, 972>>, <<1727, 1080>>, <<1280, 720>>, <<640, 480>> }
ActualSizes == { <<1920, 1080>>, <<1280, 720>>, <<640, 480>> }

\* The thread that calls start(), stop(), get_frame(); the capture threads.
Main == 0
Workers == 1..MaxThreads
Threads == {Main} \cup Workers

\* Python's None for an attribute that holds an object: the empty sequence;
\* an object is the one-element sequence of its fields.
None == <<>>

VARIABLES
  env,         \* the machine: what its drivers are able to do (never changes)
  camera,      \* self.camera: None or <<handle>>
  is_running,  \* self.is_running
  thread,      \* self.thread: 0 (None) or the capture thread started last
  frame,       \* self.frame: 0 (None) or the age rank of the stored JPEG
  error,       \* self.error is set
  lock,        \* self.lock: None or <<holder>>
  pc,          \* where each thread is
  ret,         \* call site _initialize_camera returns to
  bi,          \* _initialize_camera: index of `backend` in backends
  ci,          \* _initialize_camera: index into resolutions_to_test
  best,        \* _initialize_camera: best_resolution
  errs,        \* _capture_loop: consecutive_errors
  img,         \* _capture_loop: the frame read and encoded, not yet stored
  rv,          \* value _initialize_camera returns
  log,         \* history: what each backend did in this call of _initialize_camera
  opens,       \* history: VideoCapture objects that came back opened so far
  calls,       \* history: calls of start() and stop() made so far
  stops,       \* history: stop() calls returned since the last start() call (0, 1, 2 = two or more)
  backend,     \* PiCamera: self.backend
  photo,       \* PiCamera, history: what the last capture_photo() call found and did
  detect       \* detect_cameras(): its local variables and where the call is

vars == <<env, camera, is_running, thread, frame, error, lock, pc, ret, bi, ci, best, errs, img, rv, log, opens, calls, stops, backend, photo, detect>>

shared == <<env, detect, camera, is_running, thread, frame, error, lock, opens, calls, backend, photo>>
initLocals == <<bi, ci, best, rv, log>>
loopLocals == <<errs, img>>

----------------------------------------------------------------------------
\* The driver handle (cv2.VideoCapture)

\* cv2.VideoCapture(self.camera_id, backend): a new object, opened or not.
\* backend: the backend it was made with; lastSet: the candidate of
\* resolutions_to_test last set on the driver (0: none); acc (history): the
\* candidate whose probe was accepted on it (0: none); released: release()
\* was called on it.
VideoCapture(b, ok) ==
  << [backend |-> b, opened |-> ok, released |-> FALSE, lastSet |-> 0, acc |-> 0] >>

\* cap.isOpened()
isOpened(c) ==
  c[1].opened

\* cap.set(...) of candidate k: a released or unopened capture ignores it
set(c, k) ==
  IF isOpened(c) THEN << [c[1] EXCEPT !.lastSet = k] >> ELSE c

\* cap.release(); written for `if self.camera: self.camera.release()`
release(c) ==
  IF c = None THEN c
  ELSE << [backend |-> 0, opened |-> FALSE, released |-> TRUE, lastSet |-> 0, acc |-> 0] >>

\* The acceptance test of one candidate (camera_utils.py:120):
\* ret and frame is not None and frame.shape[1] >= test_width * 0.9
\*                           and frame.shape[0] >= test_height * 0.9
Accepts(retv, shape, test) ==
  retv /\ 10 * shape[1] >= 9 * test[1] /\ 10 * shape[2] >= 9 * test[2]

\* How the loop over resolutions_to_test goes on after candidate k
\* (lines 112, 125): `break` on acceptance, else the next candidate, else the
\* loop is exhausted.
ProbeExitMutant(accepted, k) ==
  IF k < Len(resolutions_to_test) THEN "next"
  ELSE IF accepted THEN "break" ELSE "exhausted"
ProbeExit(accepted, k) ==
  IF accepted THEN "break"
  ELSE IF k < Len(resolutions_to_test) THEN "next" ELSE "exhausted"

----------------------------------------------------------------------------
\* Helpers

Goto(t, l) ==
  pc' = [pc EXCEPT ![t] = l]

Alive ==
  {w \in Workers : pc[w] # "idle"}

\* Threads about to start a capture thread (camera_utils.py:139-142).
Spawning ==
  {t \in Threads : pc[t] = "init_spawn"}

SlotFree ==
  Cardinality(Alive) + Cardinality(Spawning) < env.threads

\* The driver may choose to fail a read of capture thread t.
MayFail(t) ==
  Cardinality({u \in Workers \ {t} : errs[u] > 0}) < MaxFailing

\* What a backend did in one call of _initialize_camera:
\*   "untried"   not reached,
\*   "failed"    the device did not open, or no candidate was accepted,
\*   "unstable"  it opened and a candidate was accepted, but the read of
\*               line 132 returned no frame,
\*   "ok"        all three succeeded.
NoLog ==
  [b \in 1..Len(backends) |-> "untried"]

\* Age ranks of the JPEG buffers alive (stored or about to be stored): a
\* later read has a higher rank; 0 is None.  Ranks are kept dense.
Tokens(f, im) ==
  ({f} \cup {im[t] : t \in Threads}) \ {0}

RankIn(S, v) ==
  IF v = 0 THEN 0 ELSE Cardinality({u \in S : u <= v})

Newest(f, im) ==
  Cardinality(Tokens(f, im)) + 1

----------------------------------------------------------------------------
\* UsbCamera._initialize_camera, run by thread t

\* lines 100-105: self.camera = cv2.VideoCapture(self.camera_id, backend);
\* if not self.camera.isOpened(): (release; continue)
InitOpen(t) ==
  /\ pc[t] = "init_open"
  /\ \E ok \in BOOLEAN :
       /\ ok => (bi[t] \in env.usable /\ opens < MaxOpens)
       /\ (env.reliable /\ bi[t] \in env.usable /\ opens < MaxOpens) => ok
       /\ opens' = IF ok THEN opens + 1 ELSE opens
       /\ camera' = VideoCapture(bi[t], ok)
       /\ IF ok
            THEN /\ ci' = [ci EXCEPT ![t] = 1]
                 /\ Goto(t, "init_probe")
                 /\ UNCHANGED log
            ELSE /\ log' = [log EXCEPT ![t][bi[t]] = "failed"]
                 /\ Goto(t, "init_release")
                 /\ UNCHANGED ci
  /\ UNCHANGED <<env, detect, backend, photo, is_running, thread, frame, error, lock, ret, bi, best, rv, loopLocals, stops, calls>>

\* lines 112-131, one candidate: set width, height, fps; read them back;
\* read one frame; accept (best_resolution = ...; break) or go to the next
\* candidate; after the loop, `if not best_resolution` (line 128).
\* (self.camera is None here only if another thread set it: AttributeError,
\* caught at line 145)
InitProbe(t) ==
  /\ pc[t] = "init_probe"
  /\ IF camera = None
       THEN /\ log' = [log EXCEPT ![t][bi[t]] = "failed"]
            /\ Goto(t, "init_release")
            /\ UNCHANGED <<camera, ci, best>>
       ELSE \E retv \in BOOLEAN, shape \in FrameShapes, actual \in env.sizes :
            LET accepted == Accepts(retv, shape, resolutions_to_test[ci[t]])
                exit     == ProbeExit(accepted, ci[t])
                found    == IF accepted
                              THEN << [w |-> actual[1], h |-> actual[2], res |-> ci[t]] >>
                              ELSE best[t]
                c        == set(camera, ci[t])
            IN  /\ retv => (isOpened(camera) /\ ci[t] \in env.accepting)
                /\ (env.reliable /\ isOpened(camera) /\ ci[t] \in env.accepting) => accepted
                /\ camera' = IF accepted THEN << [c[1] EXCEPT !.acc = ci[t]] >> ELSE c
                /\ best' = [best EXCEPT ![t] = found]
                /\ ci' = [ci EXCEPT ![t] = IF exit = "next" THEN ci[t] + 1 ELSE ci[t]]
                /\ IF exit = "next"
                     THEN UNCHANGED <<pc, log>>
                     ELSE IF found = None
                       THEN /\ log' = [log EXCEPT ![t][bi[t]] = "failed"]
                            /\ Goto(t, "init_release")
                       ELSE /\ Goto(t, "init_stable")
                            /\ UNCHANGED log
  /\ UNCHANGED <<env, detect, backend, photo, is_running, thread, frame, error, lock, ret, bi, rv, loopLocals, stops, calls, opens>>

\* lines 132-138: ret, frame = self.camera.read(); if not ret or frame is None
InitStable(t) ==
  /\ pc[t] = "init_stable"
  /\ IF camera = None
       THEN /\ log' = [log EXCEPT ![t][bi[t]] = "unstable"]
            /\ Goto(t, "init_release")
       ELSE \E retv \in BOOLEAN :
            /\ retv => (isOpened(camera) /\ SlotFree)
            /\ (env.reliable /\ isOpened(camera) /\ SlotFree) => retv
            /\ IF retv
                 THEN /\ log' = [log EXCEPT ![t][bi[t]] = "ok"]
                      /\ Goto(t, "init_spawn")
                 ELSE /\ log' = [log EXCEPT ![t][bi[t]] = "unstable"]
                      /\ Goto(t, "init_release")
  /\ UNCHANGED <<shared, ret, bi, ci, best, rv, loopLocals, stops>>

\* lines 103-105, 130-131, 137-138, 147-149: release the handle if there is
\* one, then `continue`: the next backend, or fall out of the loop.
NextBackendMutant(t) ==
  IF bi[t] + 1 < Len(backends)
    THEN /\ bi' = [bi EXCEPT ![t] = bi[t] + 2]
         /\ Goto(t, "init_open")
    ELSE /\ Goto(t, "init_fail")
         /\ UNCHANGED bi
NextBackend(t) ==
  IF bi[t] < Len(backends)
    THEN /\ bi' = [bi EXCEPT ![t] = bi[t] + 1]
         /\ Goto(t, "init_open")
    ELSE /\ Goto(t, "init_fail")
         /\ UNCHANGED bi

InitRelease(t) ==
  /\ pc[t] = "init_release"
  /\ camera' = release(camera)
  /\ NextBackend(t)
  /\ best' = [best EXCEPT ![t] = None]
  /\ UNCHANGED <<env, detect, backend, photo, is_running, thread, frame, error, lock, ret, ci, rv, log, loopLocals, stops, calls, opens>>

\* lines 139-144: self.is_running = True;
\* self.thread = threading.Thread(target=self._capture_loop);
\* self.thread.start(); return True.  The new thread starts at line 163.
InitSpawn(t) ==
  /\ pc[t] = "init_spawn"
  /\ is_running' = TRUE
  /\ \E w \in Workers :
       /\ pc[w] = "idle"
       /\ \A v \in Workers : pc[v] = "idle" => w <= v
       /\ thread' = w
       /\ pc' = [pc EXCEPT ![t] = "init_ret", ![w] = "loop"]
       /\ errs' = [errs EXCEPT ![w] = 0]
  /\ rv' = [rv EXCEPT ![t] = TRUE]
  /\ UNCHANGED <<env, detect, backend, photo, camera, frame, error, lock, ret, bi, ci, best, log, img, stops, calls, opens>>

\* lines 150-152: self.error = ...; return False
InitFail(t) ==
  /\ pc[t] = "init_fail"
  /\ error' = TRUE
  /\ rv' = [rv EXCEPT ![t] = FALSE]
  /\ Goto(t, "init_ret")
  /\ UNCHANGED <<env, detect, backend, photo, camera, is_running, thread, frame, lock, ret, bi, ci, best, log, loopLocals, stops, calls, opens>>

\* The return of _initialize_camera to its caller: start() (line 87), or
\* _reconnect (line 160) called at line 169, 183 or 191 of _capture_loop.
\* After lines 183 and 191: consecutive_errors = 0, then the sleep and line 165.
ErrsAfterReconnectMutant(t) ==
  errs[t]
ErrsAfterReconnect(t) ==
  0

InitReturn(t) ==
  /\ pc[t] = "init_ret"
  /\ CASE ret[t] = "start"  -> Goto(t, "ready") /\ UNCHANGED errs
       [] ret[t] = "absent" -> Goto(t, "backoff") /\ UNCHANGED errs
       [] OTHER             -> /\ Goto(t, "loop")
                               /\ errs' = [errs EXCEPT ![t] = ErrsAfterReconnect(t)]
  /\ ret' = [ret EXCEPT ![t] = "none"]
  /\ bi' = [bi EXCEPT ![t] = 0]
  /\ ci' = [ci EXCEPT ![t] = 0]
  /\ best' = [best EXCEPT ![t] = None]
  /\ rv' = [rv EXCEPT ![t] = FALSE]
  /\ log' = [log EXCEPT ![t] = NoLog]
  /\ UNCHANGED <<shared, img, stops>>

----------------------------------------------------------------------------
\* UsbCamera._reconnect, run by capture thread t

\* The call of self._reconnect() from call site `site`.
CallReconnect(t, site) ==
  /\ ret' = [ret EXCEPT ![t] = site]
  /\ Goto(t, "rc_release")

\* lines 156-158: if self.camera: self.camera.release(); self.camera = None
RcRelease(t) ==
  /\ pc[t] = "rc_release"
  /\ camera' = None
  /\ Goto(t, "rc_sleep")
  /\ UNCHANGED <<env, detect, backend, photo, is_running, thread, frame, error, lock, ret, initLocals, loopLocals, stops, calls, opens>>

\* lines 159-160: time.sleep(1); return self._initialize_camera()
RcSleep(t) ==
  /\ pc[t] = "rc_sleep"
  /\ bi' = [bi EXCEPT ![t] = 1]
  /\ Goto(t, "init_open")
  /\ UNCHANGED <<shared, ret, ci, best, rv, log, loopLocals, stops>>

----------------------------------------------------------------------------
\* UsbCamera._capture_loop, run by capture thread t

\* line 165: while self.is_running
LoopTest(t) ==
  /\ pc[t] = "loop"
  /\ IF is_running
       THEN Goto(t, "check") /\ UNCHANGED errs
       ELSE Goto(t, "idle") /\ errs' = [errs EXCEPT ![t] = 0]
  /\ UNCHANGED <<shared, ret, initLocals, img, stops>>

\* line 167: not self.camera or not self.camera.isOpened()
HandleAbsentMutant ==
  camera = None
HandleAbsent ==
  camera = None \/ ~isOpened(camera)

\* lines 167-169: if <line 167>: self._reconnect()
LoopCheck(t) ==
  /\ pc[t] = "check"
  /\ IF HandleAbsent
       THEN CallReconnect(t, "absent")
       ELSE Goto(t, "read") /\ UNCHANGED ret
  /\ UNCHANGED <<shared, initLocals, loopLocals, stops>>

\* A failed read (lines 178-185) or an exception (lines 186-193):
\* consecutive_errors += 1; if consecutive_errors >= max_errors: self._reconnect();
\* otherwise time.sleep(0.03) / time.sleep(0.1) and back to line 165
ThresholdMutant(n) ==
  n > max_errors
Threshold(n) ==
  n >= max_errors

CountError(t, site) ==
  /\ errs' = [errs EXCEPT ![t] = errs[t] + 1]
  /\ IF Threshold(errs[t] + 1)
       THEN CallReconnect(t, site)
       ELSE Goto(t, "loop") /\ UNCHANGED ret

\* lines 172-174: ret, frame = self.camera.read(); if ret: ... cv2.imencode(...)
\* (self.camera is None here only if another thread set it after line 167:
\* AttributeError, caught at line 186)
LoopRead(t) ==
  /\ pc[t] = "read"
  /\ IF camera = None
       THEN CountError(t, "exc") /\ UNCHANGED <<img, frame>>
       ELSE \E retv \in BOOLEAN :
            /\ retv => isOpened(camera)
            /\ ~retv => (~isOpened(camera) \/ (env.flaky /\ MayFail(t)))
            /\ IF retv
                 THEN LET im == [img EXCEPT ![t] = Newest(frame, [img EXCEPT ![t] = 0])]
                          S  == Tokens(frame, im)
                      IN  /\ img' = [x \in Threads |-> RankIn(S, im[x])]
                          /\ frame' = RankIn(S, frame)
                          /\ Goto(t, "store")
                          /\ UNCHANGED <<errs, ret>>
                 ELSE CountError(t, "thr") /\ UNCHANGED <<img, frame>>
  /\ UNCHANGED <<env, detect, backend, photo, camera, is_running, thread, error, lock, initLocals, stops, calls, opens>>

\* line 175: with self.lock (acquire)
StoreAcquire(t) ==
  /\ pc[t] = "store"
  /\ lock = None
  /\ lock' = <<t>>
  /\ Goto(t, "store_w")
  /\ UNCHANGED <<env, detect, backend, photo, camera, is_running, thread, frame, error, ret, initLocals, loopLocals, stops, calls, opens>>

\* lines 176-177, 185: self.frame = jpeg.tobytes(); (release);
\* consecutive_errors = 0; time.sleep(0.03)
StoreFrameMutant(t) ==
  /\ pc[t] = "store_w"
  /\ frame' = img[t]
  /\ Goto(t, "loop")
  /\ UNCHANGED <<env, detect, backend, photo, camera, is_running, thread, error, lock, ret, initLocals, loopLocals, stops, calls, opens>>
StoreFrame(t) ==
  /\ pc[t] = "store_w"
  /\ LET im == [img EXCEPT ![t] = 0]
         S  == Tokens(img[t], im)
     IN  /\ frame' = RankIn(S, img[t])
         /\ img' = [x \in Threads |-> RankIn(S, im[x])]
  /\ lock' = None
  /\ errs' = [errs EXCEPT ![t] = 0]
  /\ Goto(t, "loop")
  /\ UNCHANGED <<env, detect, backend, photo, camera, is_running, thread, error, ret, initLocals, stops, calls, opens>>

\* lines 170-171: time.sleep(1); continue
Backoff(t) ==
  /\ pc[t] = "backoff"
  /\ Goto(t, "loop")
  /\ UNCHANGED <<shared, ret, initLocals, loopLocals, stops>>

----------------------------------------------------------------------------
\* The public methods of UsbCamera, called by Main one after the other

\* lines 84-87: start()
Start ==
  /\ pc[Main] = "ready"
  /\ calls < MaxCalls
  /\ calls' = calls + 1
  /\ stops' = 0
  /\ IF is_running
       THEN UNCHANGED <<pc, ret, bi>>
       ELSE /\ ret' = [ret EXCEPT ![Main] = "start"]
            /\ bi' = [bi EXCEPT ![Main] = 1]
            /\ Goto(Main, "init_open")
  /\ UNCHANGED <<env, detect, backend, photo, camera, is_running, thread, frame, error, lock, ci, best, rv, log, loopLocals, opens>>

\* line 200: stop(): self.is_running = False
Stop ==
  /\ pc[Main] = "ready"
  /\ calls < MaxCalls
  /\ calls' = calls + 1
  /\ is_running' = FALSE
  /\ Goto(Main, "stop_join")
  /\ UNCHANGED <<env, detect, backend, photo, camera, thread, frame, error, lock, ret, initLocals, loopLocals, stops, opens>>

\* lines 201-202: if self.thread: self.thread.join(timeout=1.0); the thread
\* has ended (or there is none) ...
StopJoined ==
  /\ pc[Main] = "stop_join"
  /\ thread = 0 \/ pc[thread] = "idle"
  /\ Goto(Main, "stop_release")
  /\ UNCHANGED <<shared, ret, initLocals, loopLocals, stops>>

\* ... or the timeout runs out while it is still alive.
StopJoinTimeout ==
  /\ pc[Main] = "stop_join"
  /\ thread # 0 /\ pc[thread] # "idle"
  /\ Goto(Main, "stop_release")
  /\ UNCHANGED <<shared, ret, initLocals, loopLocals, stops>>

\* lines 203-205: if self.camera: self.camera.release(); return
StopRelease ==
  /\ pc[Main] = "stop_release"
  /\ camera' = release(camera)
  /\ stops' = IF stops < 2 THEN stops + 1 ELSE stops
  /\ Goto(Main, "ready")
  /\ UNCHANGED <<env, detect, backend, photo, is_running, thread, frame, error, lock, ret, initLocals, loopLocals, calls, opens>>

\* lines 195-197: get_frame(): with self.lock (acquire)
GetFrame ==
  /\ pc[Main] = "ready"
  /\ lock = None
  /\ lock' = <<Main>>
  /\ Goto(Main, "get_frame")
  /\ UNCHANGED <<env, detect, backend, photo, camera, is_running, thread, frame, error, ret, initLocals, loopLocals, stops, calls, opens>>

\* line 197: return self.frame (release)
GetFrameReturn ==
  /\ pc[Main] = "get_frame"
  /\ lock' = None
  /\ Goto(Main, "ready")
  /\ UNCHANGED <<env, detect, backend, photo, camera, is_running, thread, frame, error, ret, initLocals, loopLocals, stops, calls, opens>>

----------------------------------------------------------------------------
\* PiCamera (camera_utils.py:208-346).  It has the attributes of UsbCamera
\* (camera, is_running, thread, frame, lock) and self.backend.

\* picamera.PiCamera() (line 228) or Picamera2() (line 245): a camera object
\* of library lib
PiObject(lib) ==
  << [backend |-> lib, opened |-> TRUE, released |-> FALSE, lastSet |-> 0, acc |-> 0] >>

\* The object self.camera refers to is an open camera of library lib.
Usable(lib) ==
  camera # None /\ camera[1].opened /\ camera[1].backend = lib

\* The session is open: started, with a camera in use.
SessionOpen ==
  is_running /\ camera # None /\ camera[1].opened

NoPhoto ==
  [backend |-> "none", open |-> FALSE, buffered |-> FALSE, did |-> "none"]

\* self.is_running = True; self.thread = threading.Thread(target=...);
\* self.thread.start(); return True (lines 232-237, 249-254, 267-272).
\* The new thread starts at label l.
PiSpawn(l) ==
  /\ is_running' = TRUE
  /\ \E w \in Workers :
       /\ pc[w] = "idle"
       /\ \A v \in Workers : pc[v] = "idle" => w <= v
       /\ thread' = w
       /\ pc' = [pc EXCEPT ![Main] = "pi_ret", ![w] = l]
  /\ rv' = [rv EXCEPT ![Main] = TRUE]

\* One of the first two try blocks of start(): import the library, set
\* self.backend, construct the camera, configure it, start the thread.  Any
\* exception leaves what was assigned so far and goes on to the next block.
\*   "import"  the library is not installed,
\*   "ctor"    the constructor raises,
\*   "config"  the configuration of the constructed camera raises,
\*   "ok"      no exception.
PiTry(lib, l, next) ==
  \E out \in {"import", "ctor", "config", "ok"} :
    /\ (out = "import") <=> (lib \notin env.libs)
    /\ out = "ok" => SlotFree
    /\ backend' = IF out = "import" THEN backend ELSE lib
    /\ camera' = IF out \in {"config", "ok"} THEN PiObject(lib) ELSE camera
    /\ IF out = "ok"
         THEN PiSpawn(l)
         ELSE Goto(Main, next) /\ UNCHANGED <<is_running, thread, rv>>

\* line 221: the call of start().  The call is tagged "restart" when the
\* session is open already.
PiStart ==
  /\ pc[Main] = "ready"
  /\ calls < MaxCalls
  /\ calls' = calls + 1
  /\ stops' = 0
  /\ ret' = [ret EXCEPT ![Main] = IF SessionOpen THEN "restart" ELSE "start"]
  /\ Goto(Main, "pi_try1")
  /\ UNCHANGED <<env, detect, backend, photo, camera, is_running, thread, frame, error, lock, initLocals, loopLocals, opens>>

\* lines 224-239
PiTryPicamera ==
  /\ pc[Main] = "pi_try1"
  /\ PiTry("picamera", "p1_next", "pi_try2")
  /\ UNCHANGED <<env, detect, photo, frame, error, lock, ret, bi, ci, best, log, loopLocals, opens, calls, stops>>

\* lines 242-256
PiTryPicamera2 ==
  /\ pc[Main] = "pi_try2"
  /\ PiTry("picamera2", "p2_test", "pi_try3")
  /\ UNCHANGED <<env, detect, photo, frame, error, lock, ret, bi, ci, best, log, loopLocals, opens, calls, stops>>

\* lines 259-276: self.backend = 'opencv'; self.camera = cv2.VideoCapture(0,
\* cv2.CAP_V4L2); not opened: (except) self.camera = None; return False
PiTryOpencv ==
  /\ pc[Main] = "pi_try3"
  /\ backend' = "opencv"
  /\ \E ok \in BOOLEAN :
       /\ ok => SlotFree
       /\ IF ok
            THEN /\ camera' = VideoCapture("V4L2", TRUE)
                 /\ PiSpawn("cv_test")
            ELSE /\ camera' = None
                 /\ rv' = [rv EXCEPT ![Main] = FALSE]
                 /\ Goto(Main, "pi_ret")
                 /\ UNCHANGED <<is_running, thread>>
  /\ UNCHANGED <<env, detect, photo, frame, error, lock, ret, bi, ci, best, log, loopLocals, opens, calls, stops>>

\* start() returns rv[Main] to its caller
PiReturn ==
  /\ pc[Main] = "pi_ret"
  /\ ret' = [ret EXCEPT ![Main] = "none"]
  /\ rv' = [rv EXCEPT ![Main] = FALSE]
  /\ Goto(Main, "ready")
  /\ UNCHANGED <<shared, bi, ci, best, log, loopLocals, stops>>

\* A capture thread takes a new image: it becomes the newest buffer.
TakeImage(t, l) ==
  LET im == [img EXCEPT ![t] = Newest(frame, [img EXCEPT ![t] = 0])]
      S  == Tokens(frame, im)
  IN  /\ img' = [x \in Threads |-> RankIn(S, im[x])]
      /\ frame' = RankIn(S, frame)
      /\ Goto(t, l)

\* lines 280-282: the next frame of capture_continuous, encoded.  The
\* generator belongs to the camera object self.camera was when the thread
\* started: if self.camera is no open picamera object any more, that object
\* was either closed (the generator raises, the thread ends) or replaced (it
\* goes on delivering).
P1Next(t) ==
  /\ pc[t] = "p1_next"
  /\ \E got \in BOOLEAN :
       /\ Usable("picamera") => got
       /\ IF got THEN TakeImage(t, "p1_store")
                 ELSE Goto(t, "idle") /\ UNCHANGED <<img, frame>>
  /\ UNCHANGED <<env, detect, backend, photo, camera, is_running, thread, error, lock, ret, initLocals, errs, stops, calls, opens>>

\* line 290: while self.is_running
P2Test(t) ==
  /\ pc[t] = "p2_test"
  /\ Goto(t, IF is_running THEN "p2_capture" ELSE "idle")
  /\ UNCHANGED <<shared, ret, initLocals, loopLocals, stops>>

\* lines 292-293: image = self.camera.capture_array(); or the exception,
\* caught at line 296; then time.sleep(0.03)
P2Capture(t) ==
  /\ pc[t] = "p2_capture"
  /\ \E got \in BOOLEAN :
       /\ got => Usable("picamera2")
       /\ IF got THEN TakeImage(t, "p2_store")
                 ELSE Goto(t, "p2_test") /\ UNCHANGED <<img, frame>>
  /\ UNCHANGED <<env, detect, backend, photo, camera, is_running, thread, error, lock, ret, initLocals, errs, stops, calls, opens>>

\* line 301: while self.is_running
CvTest(t) ==
  /\ pc[t] = "cv_test"
  /\ Goto(t, IF is_running THEN "cv_read" ELSE "idle")
  /\ UNCHANGED <<shared, ret, initLocals, loopLocals, stops>>

\* lines 302-304, 307-309: ret, image = self.camera.read().  self.camera is
\* None or an object without read(): AttributeError, not caught, the thread
\* ends.
CvRead(t) ==
  /\ pc[t] = "cv_read"
  /\ IF camera = None \/ camera[1].backend \in {"picamera", "picamera2"}
       THEN Goto(t, "idle") /\ UNCHANGED <<img, frame>>
       ELSE \E retv \in BOOLEAN :
            /\ retv => isOpened(camera)
            /\ IF retv THEN TakeImage(t, "cv_store")
                       ELSE Goto(t, "cv_test") /\ UNCHANGED <<img, frame>>
  /\ UNCHANGED <<env, detect, backend, photo, camera, is_running, thread, error, lock, ret, initLocals, errs, stops, calls, opens>>

\* lines 283, 294, 305: with self.lock (acquire)
PiStoreAcquire(t) ==
  /\ pc[t] \in {"p1_store", "p2_store", "cv_store"}
  /\ lock = None
  /\ lock' = <<t>>
  /\ Goto(t, CASE pc[t] = "p1_store" -> "p1_store_w"
               [] pc[t] = "p2_store" -> "p2_store_w"
               [] OTHER              -> "cv_store_w")
  /\ UNCHANGED <<env, detect, backend, photo, camera, is_running, thread, frame, error, ret, initLocals, loopLocals, stops, calls, opens>>

\* lines 284-287, 295 and 298, 306 and 309: self.frame = jpeg.tobytes();
\* (release); picamera: if not self.is_running: break
PiStoreFrame(t) ==
  /\ pc[t] \in {"p1_store_w", "p2_store_w", "cv_store_w"}
  /\ LET im == [img EXCEPT ![t] = 0]
         S  == Tokens(img[t], im)
     IN  /\ frame' = RankIn(S, img[t])
         /\ img' = [x \in Threads |-> RankIn(S, im[x])]
  /\ lock' = None
  /\ Goto(t, CASE pc[t] = "p1_store_w" -> (IF is_running THEN "p1_next" ELSE "idle")
               [] pc[t] = "p2_store_w" -> "p2_test"
               [] OTHER                -> "cv_test")
  /\ UNCHANGED <<env, detect, backend, photo, camera, is_running, thread, error, ret, initLocals, errs, stops, calls, opens>>

\* lines 315-327: capture_photo(filepath).  photo.did:
\*   "still"            camera.capture / camera.capture_file wrote the file,
\*   "still_failed"     camera.capture / camera.capture_file raised: the
\*                      exception goes to the caller,
\*   "reading"          the call is inside camera.read() (line 322),
\*   "read"             camera.read() returned an image, which was written,
\*   "read_failed"      camera.read() returned no image: RuntimeError (line 324),
\*   "attr_error"       self.camera is None or an object without the method
\*                      called: AttributeError,
\*   "not_initialised"  RuntimeError of line 327.
PhotoOutcomes ==
  CASE backend \in {"picamera", "picamera2"} ->
         IF Usable(backend) THEN {"still", "still_failed"} ELSE {"attr_error"}
    [] backend = "opencv" ->
         IF camera = None \/ camera[1].backend \in {"picamera", "picamera2"}
           THEN {"attr_error"}
           ELSE {"reading"}
    [] OTHER -> {"not_initialised"}

\* lines 315-327 up to the return of the method or, on the opencv backend,
\* into the call of self.camera.read()
PiCapturePhoto ==
  /\ pc[Main] = "ready"
  /\ calls < MaxCalls
  /\ calls' = calls + 1
  /\ \E d \in PhotoOutcomes :
       /\ photo' = [backend |-> backend, open |-> camera # None /\ camera[1].opened,
                    buffered |-> frame # 0, did |-> d]
       /\ Goto(Main, IF d = "reading" THEN "photo_read" ELSE "ready")
  /\ UNCHANGED <<env, detect, backend, camera, is_running, thread, frame, error, lock, ret, initLocals, loopLocals, opens, stops>>

\* lines 322-325: self.camera.read() returns; if not ret: raise; cv2.imwrite
PiPhotoRead ==
  /\ pc[Main] = "photo_read"
  /\ \E retv \in BOOLEAN :
       /\ retv => (camera # None /\ isOpened(camera))
       /\ photo' = [photo EXCEPT !.did = IF retv THEN "read" ELSE "read_failed"]
  /\ Goto(Main, "ready")
  /\ UNCHANGED <<env, detect, backend, camera, is_running, thread, frame, error, lock, ret, initLocals, loopLocals, opens, calls, stops>>

\* lines 333-346: close the camera by the method of self.backend if there is
\* one; finally self.camera = None; return
PiStopClose ==
  /\ pc[Main] = "stop_release"
  /\ camera' = None
  /\ stops' = IF stops < 2 THEN stops + 1 ELSE stops
  /\ Goto(Main, "ready")
  /\ UNCHANGED <<env, detect, backend, photo, is_running, thread, frame, error, lock, ret, initLocals, loopLocals, calls, opens>>

----------------------------------------------------------------------------
\* detect_cameras (camera_utils.py:9-71)

\* Bound: capture objects that come back opened during one call of
\* detect_cameras(); afterwards every cv2.VideoCapture(i, backend) comes back
\* not opened or raises.
MaxDetected == 2

\* line 14: range(10)
camera_ids == 0 .. 9

\* line 17, the order in which detect_cameras tries the backends
detect_backends == <<"ANY", "DSHOW", "V4L2", "GSTREAMER">>

\* lines 48-53
BackendName(b) ==
  CASE b = "ANY" -> "Auto"
    [] b = "DSHOW" -> "DirectShow"
    [] b = "V4L2" -> "V4L2"
    [] b = "GSTREAMER" -> "GStreamer"
    [] OTHER -> "Inconnu"

\* The variables of a call of detect_cameras():
\*   pc  where the call is ("off": not called), i, b (index of `backend` in
\*   detect_backends), r (index into resolutions_to_test), cap,
\*   best_resolution, backend_name ("unbound" before its first assignment),
\*   available_cameras;
\*   open (history)  the capture objects that opened and on which release()
\*                   has not run, each named by its camera id and backend;
\*   opened (history)  how many capture objects came back opened.
NoDetection ==
  [pc |-> "off", i |-> -1, b |-> 0, r |-> 0, cap |-> None, best_resolution |-> None,
   backend_name |-> "unbound", available_cameras |-> <<>>, open |-> {}, opened |-> 0]

session == <<env, camera, is_running, thread, frame, error, lock, pc, ret, bi, ci, best, errs, img, rv, log, opens, calls, stops, backend, photo>>

\* The objects still open once capture object c, made for camera id i, has
\* been released (by release() or by the destructor of the object).
Closed(c, i) ==
  IF c = None THEN detect.open ELSE detect.open \ { <<i, c[1].backend>> }

\* lines 11-12
DetectCall ==
  /\ detect.pc = "off"
  /\ detect' = [NoDetection EXCEPT !.pc = "for_i"]
  /\ UNCHANGED session

\* lines 14-18: the next camera id, cap = None; or the loop is over (line 70).
\* The object cap was bound to is no longer referenced: whether its
\* destructor has run by now is up to the Python runtime.
DetectForI ==
  /\ detect.pc = "for_i"
  /\ IF detect.i + 1 \in camera_ids
       THEN \E finalised \in BOOLEAN :
              detect' = [detect EXCEPT !.i = @ + 1, !.b = 0, !.cap = None,
                                       !.open = IF finalised THEN Closed(detect.cap, detect.i) ELSE @,
                                       !.pc = "for_backend"]
       ELSE detect' = [detect EXCEPT !.pc = "return"]
  /\ UNCHANGED session

\* line 19: the next backend; or the backends are exhausted (lines 66-67)
DetectForBackend ==
  /\ detect.pc = "for_backend"
  /\ IF detect.b < Len(detect_backends)
       THEN detect' = [detect EXCEPT !.b = @ + 1, !.pc = "open"]
       ELSE detect' = [detect EXCEPT !.pc = "for_i"]
  /\ UNCHANGED session

\* line 21: cap = cv2.VideoCapture(i, backend), which may raise
DetectOpen ==
  /\ detect.pc = "open"
  /\ \E o \in {"raise", "closed", "opened"} :
       /\ o = "opened" => detect.opened < MaxDetected
       /\ CASE o = "raise" -> detect' = [detect EXCEPT !.pc = "except"]
            [] o = "closed" ->
                 detect' = [detect EXCEPT !.cap = VideoCapture(detect.b, FALSE),
                                          !.pc = "is_opened"]
            [] o = "opened" ->
                 detect' = [detect EXCEPT !.cap = VideoCapture(detect.b, TRUE),
                                          !.open = @ \cup { <<detect.i, detect.b>> },
                                          !.opened = @ + 1,
                                          !.pc = "is_opened"]
  /\ UNCHANGED session

\* lines 22-29: if cap.isOpened(), else line 60
DetectIsOpened ==
  /\ detect.pc = "is_opened"
  /\ IF isOpened(detect.cap)
       THEN detect' = [detect EXCEPT !.r = 1, !.best_resolution = None, !.pc = "probe"]
       ELSE detect' = [detect EXCEPT !.pc = "release"]
  /\ UNCHANGED session

\* lines 30-44: one candidate of resolutions_to_test: set it, read the sizes
\* back, read a frame, accept it or not; any of the calls may raise
DetectProbe ==
  /\ detect.pc = "probe"
  /\ \/ detect' = [detect EXCEPT !.pc = "except"]
     \/ \E retv \in BOOLEAN, shape \in FrameShapes, actual \in env.sizes :
          LET accepted == Accepts(retv, shape, resolutions_to_test[detect.r])
              exit == ProbeExit(accepted, detect.r)
          IN  detect' = [detect EXCEPT
                           !.cap = set(@, detect.r),
                           !.best_resolution = IF accepted THEN <<actual>> ELSE @,
                           !.r = IF exit = "next" THEN @ + 1 ELSE @,
                           !.pc = IF exit = "next" THEN "probe" ELSE "best"]
  /\ UNCHANGED session

\* lines 45-59: if best_resolution: the camera is appended and `break` leaves
\* the loop over the backends; else line 59 reads backend_name, which raises
\* UnboundLocalError as long as no camera was appended in this call
DetectBest ==
  /\ detect.pc = "best"
  /\ IF detect.best_resolution # None
       THEN LET name == <<BackendName(detect_backends[detect.b]), detect.best_resolution[1]>>
            IN  detect' = [detect EXCEPT
                             !.backend_name = name[1],
                             !.available_cameras = Append(@, <<detect.i, name>>),
                             !.pc = "for_i"]
       ELSE IF detect.backend_name = "unbound"
              THEN detect' = [detect EXCEPT !.pc = "except"]
              ELSE detect' = [detect EXCEPT !.pc = "release"]
  /\ UNCHANGED session

\* line 60: cap.release()
DetectRelease ==
  /\ detect.pc = "release"
  /\ detect' = [detect EXCEPT !.cap = release(@),
                              !.open = Closed(detect.cap, detect.i),
                              !.pc = "for_backend"]
  /\ UNCHANGED session

\* lines 61-65: except Exception: if cap: cap.release(); continue
DetectExcept ==
  /\ detect.pc = "except"
  /\ detect' = [detect EXCEPT !.cap = release(@),
                              !.open = Closed(detect.cap, detect.i),
                              !.pc = "for_backend"]
  /\ UNCHANGED session

\* line 71: return available_cameras; the locals go out of scope
DetectReturn ==
  /\ detect.pc = "return"
  /\ \E finalised \in BOOLEAN :
       detect' = [detect EXCEPT !.cap = None,
                                !.open = IF finalised THEN Closed(detect.cap, detect.i) ELSE @,
                                !.pc = "done"]
  /\ UNCHANGED session

----------------------------------------------------------------------------
\* Machines: what the drivers of the machine the program runs on may do.
\*   usable     backends whose device may open,
\*   accepting  candidates the device may accept,
\*   sizes      sizes get(CAP_PROP_FRAME_WIDTH/HEIGHT) may read back,
\*   reliable   a usable backend always opens, accepts and confirms
\*              (as long as its handle is open and a thread slot is left),
\*   flaky      a read in the capture loop may fail on an open handle,
\*   threads    capture threads the device serves at a time,
\*   libs       the Raspberry Pi camera libraries installed.
\* AnyMachine: anything may happen.  Webcam: only the second backend
\* (CAP_ANY) finds a device, which delivers 1280x720 and never fails a read
\* while its handle is open.  FlakyWebcam: the same device with reads that
\* may fail.  PiMachines: a Raspberry Pi with any of the libraries.
AnyMachine ==
  [usable |-> 1..Len(backends), accepting |-> 1..Len(resolutions_to_test),
   sizes |-> ActualSizes, reliable |-> FALSE, flaky |-> TRUE,
   threads |-> MaxThreads, libs |-> {}]

Webcam ==
  [usable |-> {2}, accepting |-> {2}, sizes |-> { <<1280, 720>> },
   reliable |-> TRUE, flaky |-> FALSE, threads |-> MaxThreads, libs |-> {}]

FlakyWebcam ==
  [Webcam EXCEPT !.flaky = TRUE]

\* DetectMachine: anything may happen, but every camera reports 1280x720.
DetectMachine ==
  [AnyMachine EXCEPT !.sizes = { <<1280, 720>> }]

PiMachines ==
  {[usable |-> {}, accepting |-> {}, sizes |-> {}, reliable |-> FALSE, flaky |-> TRUE,
    threads |-> MaxThreads, libs |-> L] : L \in SUBSET {"picamera", "picamera2"}}

\* UsbCamera.__init__ (lines 75-82) and PiCamera.__init__ (lines 211-219)
UsbCamera ==
  /\ camera = None
  /\ is_running = FALSE
  /\ thread = 0
  /\ frame = 0
  /\ error = FALSE
  /\ lock = None
  /\ pc = [t \in Threads |-> IF t = Main THEN "ready" ELSE "idle"]
  /\ ret = [t \in Threads |-> "none"]
  /\ bi = [t \in Threads |-> 0]
  /\ ci = [t \in Threads |-> 0]
  /\ best = [t \in Threads |-> None]
  /\ errs = [t \in Threads |-> 0]
  /\ img = [t \in Threads |-> 0]
  /\ rv = [t \in Threads |-> FALSE]
  /\ log = [t \in Threads |-> NoLog]
  /\ opens = 0
  /\ calls = 0
  /\ stops = 0
  /\ backend = "none"
  /\ photo = NoPhoto

PiCamera ==
  UsbCamera

InitCamera(t) ==
  \/ InitOpen(t) \/ InitProbe(t) \/ InitStable(t)
  \/ InitRelease(t) \/ InitSpawn(t) \/ InitFail(t) \/ InitReturn(t)

CaptureLoop(t) ==
  \/ LoopTest(t) \/ LoopCheck(t) \/ LoopRead(t) \/ StoreAcquire(t) \/ StoreFrame(t)
  \/ Backoff(t) \/ RcRelease(t) \/ RcSleep(t)

PiLoop(t) ==
  \/ P1Next(t) \/ P2Test(t) \/ P2Capture(t) \/ CvTest(t) \/ CvRead(t)
  \/ PiStoreAcquire(t) \/ PiStoreFrame(t)

\* start() and stop() of a UsbCamera on any machine, seen from the calling
\* thread: backend selection and resolution negotiation.
InitSelect ==
  UsbCamera /\ env = AnyMachine /\ detect = NoDetection

NextSelect ==
  \/ Start \/ Stop \/ StopJoined \/ StopJoinTimeout \/ StopRelease
  \/ InitCamera(Main)

SpecSelect ==
  InitSelect /\ [][NextSelect]_vars

\* A UsbCamera on the webcam with its capture threads and a caller that
\* starts it, stops it and fetches frames.
InitUsb ==
  UsbCamera /\ env = Webcam /\ detect = NoDetection

NextUsb ==
  \/ Start \/ Stop \/ StopJoined \/ StopJoinTimeout \/ StopRelease
  \/ GetFrame \/ GetFrameReturn
  \/ \E t \in Threads : InitCamera(t)
  \/ \E t \in Workers : CaptureLoop(t)

SpecUsb ==
  InitUsb /\ [][NextUsb]_vars

\* Scheduling: a thread that can take a step takes one sooner or later, a
\* thread that waits for the lock gets it sooner or later, and a call in
\* progress on the calling thread goes on; nothing obliges the caller to make
\* a call.
FairUsb ==
  /\ SpecUsb
  /\ \A t \in Workers : WF_vars(CaptureLoop(t) \/ InitCamera(t))
  /\ \A t \in Workers : SF_vars(StoreAcquire(t))
  /\ WF_vars(StopJoined \/ StopJoinTimeout \/ StopRelease \/ GetFrameReturn \/ InitCamera(Main))

\* A UsbCamera on the flaky webcam, started and left running.
InitLoop ==
  UsbCamera /\ env = FlakyWebcam /\ detect = NoDetection

NextLoop ==
  \/ Start
  \/ \E t \in Threads : InitCamera(t)
  \/ \E t \in Workers : CaptureLoop(t)

SpecLoop ==
  InitLoop /\ [][NextLoop]_vars

\* The same with the scheduling of FairUsb.
FairLoop ==
  /\ SpecLoop
  /\ \A t \in Workers : WF_vars(CaptureLoop(t) \/ InitCamera(t))
  /\ \A t \in Workers : SF_vars(StoreAcquire(t))
  /\ WF_vars(InitCamera(Main))

\* A PiCamera on a Raspberry Pi with its capture threads and a caller that
\* starts it, stops it, fetches frames and takes photos.
InitPi ==
  PiCamera /\ env \in PiMachines /\ detect = NoDetection

NextPi ==
  \/ PiStart \/ PiTryPicamera \/ PiTryPicamera2 \/ PiTryOpencv \/ PiReturn
  \/ Stop \/ StopJoined \/ StopJoinTimeout \/ PiStopClose
  \/ GetFrame \/ GetFrameReturn \/ PiCapturePhoto \/ PiPhotoRead
  \/ \E t \in Workers : PiLoop(t)

SpecPi ==
  InitPi /\ [][NextPi]_vars

\* The same with the scheduling of FairUsb.
FairPi ==
  /\ SpecPi
  /\ \A t \in Workers : WF_vars(PiLoop(t))
  /\ \A t \in Workers : SF_vars(PiStoreAcquire(t))
  /\ WF_vars(\/ PiTryPicamera \/ PiTryPicamera2 \/ PiTryOpencv \/ PiReturn
             \/ StopJoined \/ StopJoinTimeout \/ PiStopClose
             \/ GetFrameReturn \/ PiPhotoRead)

\* One call of detect_cameras().
InitDetect ==
  UsbCamera /\ env = DetectMachine /\ detect = NoDetection

NextDetect ==
  \/ DetectCall \/ DetectForI \/ DetectForBackend \/ DetectOpen \/ DetectIsOpened
  \/ DetectProbe \/ DetectBest \/ DetectRelease \/ DetectExcept \/ DetectReturn

SpecDetect ==
  InitDetect /\ [][NextDetect]_vars

----------------------------------------------------------------------------
\* Backend selection and resolution negotiation (SpecSelect)

\* Backends that, in the call thread t is returning from, opened their device
\* and had a candidate accepted.
Qualified(t) ==
  {b \in 1..Len(backends) : log[t][b] \in {"unstable", "ok"}}

Tried(t, b) ==
  log[t][b] \in {"failed", "unstable"}

ActiveBackend(b) ==
  camera # None /\ isOpened(camera) /\ camera[1].backend = b

\* C1 as stated: _initialize_camera returns True with, as the active backend,
\* the first backend in the order that opened and negotiated a resolution,
\* and returns False exactly when no backend did both.
SelectsFirstOpenedAndNegotiated ==
  \A t \in Threads : pc[t] = "init_ret" =>
    IF Qualified(t) = {}
      THEN ~rv[t]
      ELSE /\ rv[t]
           /\ \A b \in Qualified(t) : bi[t] <= b
           /\ ActiveBackend(bi[t])

\* C1 as amended: the backends are tried in their order, none skipped, and
\* _initialize_camera returns True with, as the active backend, the first
\* backend that opened, negotiated a resolution and then returned a frame to
\* the confirmation read of line 132; it returns False (and records the
\* error) exactly when every backend was tried and none did all three.
SelectsFirstStableBackend ==
  \A t \in Threads : pc[t] = "init_ret" =>
    IF rv[t]
      THEN /\ log[t][bi[t]] = "ok"
           /\ \A b \in 1..Len(backends) :
                /\ b < bi[t] => Tried(t, b)
                /\ b > bi[t] => log[t][b] = "untried"
           /\ ActiveBackend(bi[t])
           /\ is_running
      ELSE /\ \A b \in 1..Len(backends) : Tried(t, b)
           /\ error

\* C1 witness: a call returns True on the third backend after the first
\* backend opened and negotiated but failed the confirmation read and the
\* second did not qualify.
SelectedThirdAfterUnstableFirst ==
  /\ pc[Main] = "init_ret" /\ rv[Main] /\ bi[Main] = 3
  /\ log[Main][1] = "unstable" /\ log[Main][2] = "failed"

\* C2 as stated: the (actual_width, actual_height) recorded in
\* best_resolution is at least 90% of the requested candidate in both
\* dimensions.
RecordedResolutionWithinTolerance ==
  \A t \in Threads : best[t] # None =>
    LET r == best[t][1]
        test == resolutions_to_test[r.res]
    IN  10 * r.w >= 9 * test[1] /\ 10 * r.h >= 9 * test[2]

\* C3: negotiation is first-fit.  The candidates are set on the driver in
\* their order; once a candidate is accepted on a handle, that candidate
\* stays the last one set on it (no later candidate is set or probed), and it
\* is the one recorded in best_resolution.  In particular a driver that
\* rejects 1920x1080 and accepts 1280x720 ends with 1280x720 and is never
\* set to 640x480.
NegotiationIsFirstFit ==
  /\ camera # None /\ camera[1].acc # 0 => camera[1].lastSet = camera[1].acc
  /\ \A t \in Threads :
       /\ pc[t] = "init_probe" =>
            /\ best[t] = None
            /\ camera # None /\ camera[1].lastSet = ci[t] - 1 /\ camera[1].acc = 0
       /\ pc[t] \in {"init_stable", "init_spawn"} =>
            /\ best[t] # None /\ camera # None
            /\ best[t][1].res = camera[1].acc

\* C3 witness: 1920x1080 was rejected, 1280x720 accepted, and the call
\* returned True.
AcceptedSecondCandidate ==
  /\ pc[Main] = "init_ret" /\ rv[Main]
  /\ camera # None /\ camera[1].acc = 2 /\ camera[1].lastSet = 2

----------------------------------------------------------------------------
\* The frame buffer (SpecUsb)

\* C4 as stated: get_frame() returns self.frame, which is None until a read
\* of the capture loop succeeded and afterwards the bytes of the most recent
\* successful read stored: a capture thread that is about to store (it holds
\* the lock at line 176) never replaces a stored frame by the bytes of a read
\* older than it.
StoredFrameIsNewest ==
  \A t \in Workers :
    pc[t] \in {"store_w", "p1_store_w", "p2_store_w", "cv_store_w"} => img[t] > frame

----------------------------------------------------------------------------
\* The error threshold of the capture loop (SpecLoop)

InReconnect(t) ==
  /\ pc[t] \in {"rc_release", "rc_sleep", "init_open", "init_probe", "init_stable",
                "init_release", "init_spawn", "init_fail", "init_ret"}
  /\ ret[t] \in {"thr", "exc"}

\* C5: in the capture loop every failed read adds one to consecutive_errors;
\* the failure that makes it max_errors (10), and no earlier one, calls
\* _reconnect; the thread makes no other call of _reconnect while the counter
\* is 10, and when that call returns, True or False, the counter is 0.  A
\* call of _reconnect with fewer failures counted is the one of line 169
\* (no open handle).
ReconnectOnTenthFailure ==
  [][\A t \in Workers :
       /\ errs'[t] <= max_errors
       /\ (pc[t] = "read" /\ errs'[t] = errs[t] + 1) =>
            IF errs'[t] = max_errors
              THEN pc'[t] = "rc_release" /\ InReconnect(t)'
              ELSE pc'[t] = "loop"
       /\ (pc'[t] = "rc_release" /\ pc[t] # "rc_release" /\ ret'[t] # "absent") =>
            (pc[t] = "read" /\ errs[t] = max_errors - 1 /\ errs'[t] = max_errors)
       /\ errs[t] = max_errors => InReconnect(t)
       /\ (InReconnect(t) /\ pc[t] = "init_ret" /\ pc'[t] # "init_ret") =>
            (errs'[t] = 0 /\ pc'[t] = "loop")]_vars

\* C5 witness: a capture thread counted ten failed reads, called _reconnect,
\* and the reconnect succeeded and is about to return.
ReconnectedAfterTenFailures ==
  \E t \in Workers :
    pc[t] = "init_ret" /\ ret[t] = "thr" /\ rv[t] /\ errs[t] = max_errors

----------------------------------------------------------------------------
\* stop() and start() (SpecSelect, SpecUsb, SpecPi)

\* C6 as stated: stop() leaves the session stopped and empty (running flag
\* false, no open handle, no backend), and a stop() that follows a stop()
\* does nothing to the handle the first one closed.
StopIsIdempotent ==
  [][(pc[Main] = "stop_release" /\ pc'[Main] = "ready") =>
       /\ ~(stops >= 1 /\ camera # None /\ camera[1].released)
       /\ ~is_running'
       /\ (camera' = None \/ ~isOpened(camera'))
       /\ backend' = "none"]_vars

\* C7 as stated: a start() called on an open session, for as long as the
\* call lasts, opens no handle, starts no thread, leaves self.camera and
\* self.backend as they are, and returns True.
StartOnOpenSessionIsNoOp ==
  [][(\/ ret[Main] = "restart" \/ ret'[Main] = "restart"
      \/ (pc[Main] = "ready" /\ pc'[Main] = "ready" /\ SessionOpen /\ calls' # calls)) =>
       /\ camera' = camera
       /\ backend' = backend
       /\ thread' = thread
       /\ opens' = opens
       /\ \A w \in Workers : pc[w] = "idle" => pc'[w] = "idle"
       /\ (pc[Main] = "pi_ret" /\ pc'[Main] = "ready") => rv[Main]]_vars

\* C8 as stated: when stop() returns and from then on until start() is
\* called, self.is_running is False, no handle is opened and no capture
\* thread is started.
StoppedStaysStopped ==
  [][stops' >= 1 =>
       /\ ~is_running'
       /\ stops >= 1 =>
            /\ opens' = opens
            /\ \A w \in Workers : pc[w] = "idle" => pc'[w] = "idle"]_vars

\* C9 as stated: once stop() has returned, and unless start() is called,
\* sooner or later no capture thread is left.
ThreadsTerminateAfterStop ==
  (stops >= 1) ~> (Alive = {} \/ stops = 0)

----------------------------------------------------------------------------
\* capture_photo (SpecPi)

\* C10 as stated: a capture_photo() on the opencv backend with an open
\* camera and a frame in self.frame writes that frame: it neither takes a
\* still nor calls read() on the camera.
PhotoFromBuffer ==
  (photo.backend = "opencv" /\ photo.open /\ photo.buffered) => photo.did = "buffer"

\* C11 as stated: a capture_photo() whose still capture fails falls back to
\* a live frame: it ends with the failure of the still capture only if there
\* is no frame in self.frame.
StillFailureFallsBack ==
  photo.did = "still_failed" => ~photo.buffered

\* C12 as stated: a capture_photo() on a session without a camera and
\* without a frame ends with the RuntimeError of line 327, and between two
\* calls a session without a camera (never started, start() failed, stopped)
\* has no backend recorded.
NoBackendMeansNotInitialised ==
  /\ (photo.did # "none" /\ ~photo.open /\ ~photo.buffered) => photo.did = "not_initialised"
  /\ (pc[Main] = "ready" /\ camera = None) => backend = "none"

----------------------------------------------------------------------------
\* Sessions and their threads (SpecUsb, SpecLoop)

\* C13 as stated: a start() after a stop() behaves as the first start() of a
\* fresh session.  When such a start() has selected its backend and is about
\* to start the capture thread (self.thread is set: there was a start() and,
\* is_running having been False at the call, a stop() before), there is no
\* frame in self.frame, no recorded error and no capture thread alive.
ReopenIsFresh ==
  (pc[Main] = "init_spawn" /\ ret[Main] = "start" /\ thread # 0) =>
    (frame = 0 /\ ~error /\ Alive = {})

\* C14 as stated: whatever reconnects take place, at most one thread runs
\* the capture loop of the session.
AtMostOneCaptureThread ==
  Cardinality(Alive) <= 1

----------------------------------------------------------------------------
\* Calls into the camera handle (SpecPi, SpecUsb)

\* C15 as stated: while the caller of capture_photo() is inside
\* self.camera.read() (line 322), no capture thread calls read() on
\* self.camera (line 302), which is the same handle: nothing assigns
\* self.camera during the call.
ReadsDoNotOverlap ==
  [][\A w \in Workers :
       (/\ pc[w] = "cv_read" /\ pc'[w] # "cv_read"
        /\ camera # None /\ camera[1].backend \notin {"picamera", "picamera2"})
         => pc[Main] # "photo_read"]_vars

\* C16 as stated: no capture thread calls read() on a handle that was
\* released (line 172 after a release()), and stop() releases an open handle
\* (line 204) only when no capture thread is left that can call into it.
HandleNotUsedAfterClose ==
  [][/\ \A t \in Workers :
          (pc[t] = "read" /\ pc'[t] # "read") => (camera = None \/ ~camera[1].released)
     /\ (pc[Main] = "stop_release" /\ pc'[Main] = "ready" /\ camera # None /\ isOpened(camera))
          => Alive = {}]_vars

----------------------------------------------------------------------------
\* Failed attempts of start() (SpecPi, SpecSelect)

\* C17 as stated: within a start() called on a session without a camera, an
\* attempt that failed leaves no device object open: when the next library
\* or backend is tried, and when start() returns False, self.camera is None
\* or closed.
FailedAttemptLeavesNothingOpen ==
  ret[Main] = "start" =>
    /\ pc[Main] \in {"pi_try2", "pi_try3", "init_open", "init_fail"} =>
         (camera = None \/ ~camera[1].opened)
    /\ (pc[Main] \in {"pi_ret", "init_ret"} /\ ~rv[Main]) =>
         (camera = None \/ ~camera[1].opened)

----------------------------------------------------------------------------
\* Reconnection (SpecLoop, FairUsb)

\* The steps of a retry: a capture thread that finds the handle absent or not open at line
\* 167 calls _reconnect; _reconnect leaves self.camera None, sleeps and runs
\* the whole backend selection from the first backend; when it returns, True
\* or False, the thread sleeps (the backoff of line 170 after the call of
\* line 169) and is back at line 165; and a capture thread ends nowhere but
\* at line 165 with the flag False.
ReconnectIsRetried ==
  [][\A t \in Workers :
       /\ (pc[t] = "check" /\ pc'[t] # "check") =>
            IF camera = None \/ ~isOpened(camera)
              THEN pc'[t] = "rc_release" /\ ret'[t] = "absent"
              ELSE pc'[t] = "read"
       /\ (pc[t] = "rc_release" /\ pc'[t] # "rc_release") =>
            (camera' = None /\ pc'[t] = "rc_sleep")
       /\ (pc[t] = "rc_sleep" /\ pc'[t] # "rc_sleep") =>
            (pc'[t] = "init_open" /\ bi'[t] = 1)
       /\ (pc[t] = "init_ret" /\ pc'[t] # "init_ret") =>
            pc'[t] = (IF ret[t] = "absent" THEN "backoff" ELSE "loop")
       /\ (pc[t] = "backoff" /\ pc'[t] # "backoff") => pc'[t] = "loop"
       /\ (pc[t] # "idle" /\ pc'[t] = "idle") => (pc[t] = "loop" /\ ~is_running)]_vars

----------------------------------------------------------------------------
\* The lock of the frame buffer (SpecUsb, SpecPi)

\* C19: a thread that holds self.lock is at the assignment of self.frame
\* (lines 176, 284, 295, 306) or at the return of get_frame (lines 197, 313):
\* it is not in a read, an encode, a reconnect or a sleep; and the lock has
\* one holder at most.
LockHeldOnlyForFrame ==
  /\ lock = None \/ (Len(lock) = 1 /\ lock[1] \in Threads)
  /\ \A t \in Threads :
       /\ lock = <<t>> =>
            pc[t] \in {"store_w", "p1_store_w", "p2_store_w", "cv_store_w", "get_frame"}
       /\ pc[t] \in {"store_w", "p1_store_w", "p2_store_w", "cv_store_w", "get_frame"} =>
            lock = <<t>>

\* C19 witness: a capture thread holds the lock for its store while the
\* caller is free to call get_frame().
CaptureThreadHoldsLock ==
  \E t \in Workers : lock = <<t>> /\ pc[t] = "store_w" /\ pc[Main] = "ready" /\ frame # 0

----------------------------------------------------------------------------
\* Sustained read failures (FairPi, FairLoop)

\* A step in which capture thread t gets no image from the camera / gets one.
ReadFails(t) ==
  \/ pc[t] = "read" /\ errs'[t] = errs[t] + 1
  \/ pc[t] = "cv_read" /\ pc'[t] = "cv_test"
  \/ pc[t] = "p2_capture" /\ pc'[t] = "p2_test"

ReadSucceeds(t) ==
  /\ pc[t] \in {"read", "cv_read", "p2_capture", "p1_next"}
  /\ pc'[t] \in {"store", "cv_store", "p2_store", "p1_store"}

\* C20 as stated: a capture thread whose reads fail again and again, none
\* succeeding any more, calls a reconnect again and again instead of looping
\* for ever on the handle that fails.
SustainedFailuresReconnect ==
  \A t \in Workers :
    (<>[][~ReadSucceeds(t)]_vars /\ []<><<ReadFails(t)>>_vars)
      => []<>(pc[t] = "rc_release")

----------------------------------------------------------------------------
\* The scan of the camera ids (SpecDetect)

\* C21 as stated: when detect_cameras() returns, no capture object it opened
\* is still open, and no camera id is twice in the list it returns.
DetectionLeavesNothingOpen ==
  detect.pc = "return" =>
    /\ detect.open = {}
    /\ \A j, k \in 1..Len(detect.available_cameras) :
         j # k => detect.available_cameras[j][1] # detect.available_cameras[k][1]

====
